---- MODULE Spec2Model ----
(***************************************************************************)
(* Model of MCPFilesystemManager ("MCP Filesystem Index"): the in-memory   *)
(* file index of a session, its persisted JSON document, the directory     *)
(* tree it scans and the MCP channel it calls; and of handle_function_call *)
(* (tool_calling.py), which opens a session for one call of the manager.   *)
(*                                                                         *)
(* Strings whose characters the code inspects (file names, contents,       *)
(* hashes) are sequences of one-character strings; Python dicts are        *)
(* functions whose domain is the set of keys present.                      *)
(***************************************************************************)
EXTENDS Integers, Sequences, FiniteSets, TLC

VARIABLES
    now,            \* the wall clock read by datetime.now()
    disk,           \* regular files under base_directory (other than the index file)
    indexFile,      \* the file at self.index_file: exists, members written, mtime
    index_file,     \* the index file's name (constructor parameter)
    pc,             \* per session: position in __init__/__aenter__/__aexit__
    channel,        \* per session: the stdio transport and the MCP client session
    file_index,     \* per session: self.file_index
    metadata_cache, \* per session: self.metadata_cache
    frame,          \* per session: the synchronous call in progress and its locals
    pending,        \* per session: coroutines suspended at an awaited channel call
    lastOp,         \* per session: the last call that returned, with its result
    spent,          \* operations started and I/O faults met so far
    dispatch        \* handle_function_call: its function_name, position and reply

\* the state of the manager and of its surroundings
managerVars == <<now, disk, indexFile, index_file, pc, channel, file_index,
                 metadata_cache, frame, pending, lastOp, spent>>

vars == <<now, disk, indexFile, index_file, pc, channel, file_index, metadata_cache,
          frame, pending, lastOp, spent, dispatch>>

----------------------------------------------------------------------------
(* Bounds *)

MaxPending == 1
MaxOps == 2
MaxFaults == 1

Sessions == {"s1", "s2"}

\* file names under the base directory
NameA == <<"A", ".", "T">>
NameM == <<".", "m", "c", "p", "_", "n">>
Names == {NameA, NameM}

\* self.base_directory, resolved
BaseDirectory == <<"/", "b">>

\* paths a caller can pass that lead out of the base directory: '../o' and
\* the absolute path of the same file
PathUp == <<".", ".", "/", "o">>
PathOut == <<"/", "o">>
Paths == Names \cup {PathUp, PathOut}

\* a destination of export_index outside the base directory
PathExport == <<"/", "e">>

\* where the model keeps a file: by name under the base directory, by
\* absolute path outside it
Places == Names \cup {PathOut, PathExport}

\* names the index file can be configured with
DefaultIndexName == <<".", "m", "c", "p", "_", "i">>
CustomIndexName == <<"i", "d", "x">>
IndexNames == {DefaultIndexName, CustomIndexName}

\* the content on disk at the start, and the contents written through write_file
OldContent == <<"x">>
Contents == {<<"y", "z">>}

----------------------------------------------------------------------------
(* Python values *)

EmptyDict == [k \in {} |-> k]

\* dict.get(key, default)
Get(d, key, default) == IF key \in DOMAIN d THEN d[key] ELSE default

\* d[key] = value on a dict
Put(d, key, value) == (key :> value) @@ d

\* dict.update(other)
Update(d, other) == other @@ d

\* custom metadata dictionaries passed to add_file_metadata

MetaDicts == {[author |-> "User"], [author |-> "test"], [category |-> "test"]}

----------------------------------------------------------------------------
(* Strings *)

LowerChar(c) == IF c = "A" THEN "a" ELSE IF c = "T" THEN "t" ELSE c

\* str.lower()
Lower(str) == [i \in 1..Len(str) |-> LowerChar(str[i])]

\* str.startswith(prefix)
StartsWith(str, prefix) ==
    /\ Len(str) >= Len(prefix)
    /\ SubSeq(str, 1, Len(prefix)) = prefix

McpPrefix == <<".", "m", "c", "p", "_">>

\* sub in str
Contains(str, sub) ==
    \E i \in 0..(Len(str) - Len(sub)) : SubSeq(str, i + 1, i + Len(sub)) = sub

Digits == <<"0", "1", "2", "3", "4", "5", "6", "7", "8", "9">>

IsDigit(c) == \E d \in 1..Len(Digits) : Digits[d] = c

DigitValue(c) == (CHOOSE d \in 1..Len(Digits) : Digits[d] = c) - 1

\* int(str) raises ValueError unless str is a decimal numeral
IsInt(str) == Len(str) > 0 /\ \A i \in 1..Len(str) : IsDigit(str[i])

RECURSIVE IntOf(_)
IntOf(str) ==
    IF str = <<>> THEN 0
    ELSE 10 * IntOf(SubSeq(str, 1, Len(str) - 1)) + DigitValue(str[Len(str)])

\* pathlib's PurePath.suffix: from the last dot of the name, unless that dot
\* is the first or the last character
Suffix(name) ==
    LET dots == {i \in 1..Len(name) : name[i] = "."}
    IN  IF dots = {} THEN <<>>
        ELSE LET i == CHOOSE d \in dots : \A e \in dots : e <= d
             IN  IF i > 1 /\ i < Len(name) THEN SubSeq(name, i, Len(name))
                 ELSE <<>>

\* os.path.isabs
IsAbs(path) == Len(path) > 0 /\ path[1] = "/"

\* lines 176-179 and 198-201: str(self.base_directory / filepath) unless absolute
AbsolutePath(filepath) ==
    IF IsAbs(filepath) THEN filepath ELSE BaseDirectory \o <<"/">> \o filepath

\* whether Path(absolute).relative_to(self.base_directory) returns; it raises
\* ValueError otherwise. pathlib compares the leading components as written
\* and resolves no '..'
IsRelativeTo(absolute) == StartsWith(absolute, BaseDirectory \o <<"/">>)

\* str(Path(absolute).relative_to(self.base_directory))
RelativeTo(absolute) == SubSeq(absolute, Len(BaseDirectory) + 2, Len(absolute))

\* PurePath.name: the last component
PathName(path) ==
    LET seps == {i \in 1..Len(path) : path[i] = "/"}
    IN  IF seps = {} THEN path
        ELSE SubSeq(path, (CHOOSE i \in seps : \A j \in seps : j <= i) + 1, Len(path))

\* the file the operating system reaches by an absolute path: a leading
\* '..' below the base directory leads to its parent, the root
Place(absolute) ==
    LET up == BaseDirectory \o <<"/", ".", ".", "/">>
    IN  IF StartsWith(absolute, up)
        THEN <<"/">> \o SubSeq(absolute, Len(up) + 1, Len(absolute))
        ELSE IF IsRelativeTo(absolute) THEN RelativeTo(absolute) ELSE absolute

----------------------------------------------------------------------------
(* The directory tree *)

NoFile == [exists |-> FALSE, content |-> <<>>, stamp |-> 0]

File(content, stamp) == [exists |-> TRUE, content |-> content, stamp |-> stamp]

\* the file found at a name under the base directory, the index file included
FileAt(d, ix, n) ==
    IF n \in DOMAIN d THEN d[n]
    ELSE [exists |-> ix.exists, content |-> ix.chunks, stamp |-> ix.stamp]

\* the regular files rglob('*') finds under the base directory
RegularFiles ==
    {n \in Names : disk[n].exists}
        \cup (IF indexFile.exists THEN {index_file} ELSE {})

\* the hex digest of a content: distinct contents have distinct digests and
\* no digest is the empty string
Sha256(content) == <<"#">> \o content

\* _calculate_file_hash: "" when the file cannot be opened or read
CalculateFileHash(file, readable) ==
    IF readable /\ file.exists THEN Sha256(file.content) ELSE <<>>

\* _get_file_metadata of the file at name n: {} when stat fails
GetFileMetadata(n, file, statOk, readable) ==
    IF statOk /\ file.exists
    THEN [size |-> Len(file.content),
          created |-> file.stamp,
          modified |-> file.stamp,
          extension |-> Lower(Suffix(PathName(n))),
          name |-> PathName(n),
          path |-> n,
          hash |-> CalculateFileHash(file, readable),
          indexed_at |-> now]
    ELSE EmptyDict

----------------------------------------------------------------------------
(* The persisted index document *)

\* (mutant) the cache is written where the index belongs
IndexDocumentOfCache(index, cache, stamp) ==
    << <<"file_index", cache>>,
       <<"metadata_cache", cache>>,
       <<"last_updated", stamp>> >>

\* json.dump writes the document as key/value members, in this order
IndexDocument(index, cache, stamp) ==
    << <<"file_index", index>>,
       <<"metadata_cache", cache>>,
       <<"last_updated", stamp>> >>

DocumentKeys == <<"file_index", "metadata_cache", "last_updated">>

\* json.load succeeds only on a complete, well-formed document
Parses(chunks) ==
    /\ Len(chunks) = Len(DocumentKeys)
    /\ \A i \in 1..Len(chunks) : chunks[i][1] = DocumentKeys[i]

\* what a reader finds where nothing was written: no member of a document
Hole == <<"", EmptyDict>>

\* the file after a writer at offset k writes a member: each open file object
\* writes at its own position, whatever the file holds by then
WriteAt(chunks, k, member) ==
    [i \in 1..(IF Len(chunks) > k THEN Len(chunks) ELSE k + 1) |->
        IF i = k + 1 THEN member
        ELSE IF i <= Len(chunks) THEN chunks[i] ELSE Hole]

\* data.get(key, {}) on a parsed document
DocumentGet(chunks, key) ==
    LET hits == {i \in 1..Len(chunks) : chunks[i][1] = key}
    IN  IF hits = {} THEN EmptyDict ELSE chunks[CHOOSE i \in hits : TRUE][2]

----------------------------------------------------------------------------
(* Session lifecycle *)

NoFrame == [kind |-> "none"]

\* no handle_function_call is running: the manager is used directly
NoDispatch == [function_name |-> "none", at |-> "none", reply |-> "none"]

NoChannel == [stdio |-> "unset", session |-> "unset"]

\* the lifecycle state of the specification's state machine
Phase(s) ==
    CASE pc[s] = "new" -> "Unopened"
      [] pc[s] \in {"constructed", "initialized", "startup_refresh"} -> "Initializing"
      [] pc[s] = "ready" -> "Ready"
      [] pc[s] \in {"exit_save", "exit_session"} -> "Closing"
      [] pc[s] = "exited" -> "Closed"
      [] OTHER -> "Failed"

\* a record of a file indexed by an earlier session, as the persisted document holds it
PriorRecord ==
    [size |-> 1, created |-> 0, modified |-> 0, extension |-> <<".", "t">>,
     name |-> NameA, path |-> NameA, hash |-> Sha256(OldContent), indexed_at |-> 0,
     custom_metadata |-> [author |-> "User"]]

PriorDocument == IndexDocument(NameA :> PriorRecord, EmptyDict, 0)

\* the document an earlier writer left when it stopped after the first member
TruncatedDocument == SubSeq(PriorDocument, 1, 1)

NoIndexFile == [exists |-> FALSE, chunks |-> <<>>, stamp |-> 0]

Init ==
    /\ now = 0
    /\ disk = [n \in Places |-> IF n \in {NameA, PathOut} THEN File(OldContent, 0)
                                ELSE NoFile]
    /\ index_file \in IndexNames
    /\ indexFile \in IF index_file = DefaultIndexName
                     THEN {[exists |-> TRUE, chunks |-> d, stamp |-> 0] :
                              d \in {PriorDocument, TruncatedDocument}}
                     ELSE {NoIndexFile}
    /\ pc = [s \in Sessions |-> "new"]
    /\ channel = [s \in Sessions |-> NoChannel]
    /\ file_index = [s \in Sessions |-> EmptyDict]
    /\ metadata_cache = [s \in Sessions |-> EmptyDict]
    /\ frame = [s \in Sessions |-> NoFrame]
    /\ pending = [s \in Sessions |-> {}]
    /\ lastOp = [s \in Sessions |-> [op |-> "none"]]
    /\ spent = [ops |-> 0, faults |-> 0]
    /\ dispatch = NoDispatch

\* an operation is started, later than everything before it
CountOp ==
    /\ spent.ops < MaxOps
    /\ spent' = [spent EXCEPT !.ops = @ + 1]
    /\ now' = now + 1

\* n I/O calls meet a fault
CountFaults(n) ==
    IF n = 0 THEN UNCHANGED spent
    ELSE /\ spent.faults + n <= MaxFaults
         /\ spent' = [spent EXCEPT !.faults = @ + n]

\* an I/O call goes well (ok) or meets a fault
CountFault(ok) == CountFaults(IF ok THEN 0 ELSE 1)

\* an operation is started and its I/O goes well (ok) or meets a fault
CountOpWithFault(ok) ==
    /\ spent.ops < MaxOps
    /\ ok \/ spent.faults < MaxFaults
    /\ spent' = [ops |-> spent.ops + 1,
                 faults |-> spent.faults + (IF ok THEN 0 ELSE 1)]
    /\ now' = now + 1

\* (mutant) what could be read of a broken document is kept
LoadIndexKeepsPartial(s, readable) ==
    IF indexFile.exists
    THEN [file_index |-> DocumentGet(indexFile.chunks, "file_index"),
          metadata_cache |-> DocumentGet(indexFile.chunks, "metadata_cache"),
          loaded |-> IF readable /\ Parses(indexFile.chunks) THEN "loaded" ELSE "error"]
    ELSE [file_index |-> file_index[s], metadata_cache |-> metadata_cache[s],
          loaded |-> "absent"]

\* _load_index: the mapping and the cache after loading
LoadIndex(s, readable) ==
    IF indexFile.exists
    THEN IF readable /\ Parses(indexFile.chunks)
         THEN [file_index |-> DocumentGet(indexFile.chunks, "file_index"),
               metadata_cache |-> DocumentGet(indexFile.chunks, "metadata_cache"),
               loaded |-> "loaded"]
         ELSE [file_index |-> EmptyDict, metadata_cache |-> EmptyDict,
               loaded |-> "error"]
    ELSE [file_index |-> file_index[s], metadata_cache |-> metadata_cache[s],
          loaded |-> "absent"]

\* __init__
Construct(s) ==
    /\ pc[s] = "new"
    /\ \E readable \in BOOLEAN :
         LET r == LoadIndex(s, readable)
         IN  /\ ~readable => indexFile.exists
             /\ CountFault(readable)
             /\ file_index' = [file_index EXCEPT ![s] = r.file_index]
             /\ metadata_cache' = [metadata_cache EXCEPT ![s] = r.metadata_cache]
             /\ lastOp' = [lastOp EXCEPT ![s] = [op |-> "_load_index", loaded |-> r.loaded]]
    /\ pc' = [pc EXCEPT ![s] = "constructed"]
    /\ UNCHANGED <<now, disk, indexFile, index_file, channel, frame, pending>>

\* where __aenter__ goes when an awaited call raises: the except clause re-raises
EnterRaises(s) == "raised"

\* the awaited calls of __aenter__ before the refresh, in order
EnterCalls == <<"stdio_client.__aenter__", "session.__aenter__", "session.initialize">>

\* the channel after __aenter__ got through its first k awaited calls
ChannelAfter(k) ==
    [stdio |-> IF k >= 1 THEN "open" ELSE "unset",
     session |-> IF k >= 2 THEN "open" ELSE IF k = 1 THEN "created" ELSE "unset"]

\* __aenter__ up to the refresh: the transport is opened, the client session
\* entered and initialized; the first of these calls that raises ends it
Enter(s) ==
    /\ pc[s] = "constructed"
    /\ \E k \in 0..Len(EnterCalls) :
         /\ CountFault(k = Len(EnterCalls))
         /\ channel' = [channel EXCEPT ![s] = ChannelAfter(k)]
         /\ IF k = Len(EnterCalls)
            THEN /\ pc' = [pc EXCEPT ![s] = "initialized"]
                 /\ UNCHANGED lastOp
            ELSE /\ pc' = [pc EXCEPT ![s] = EnterRaises(s)]
                 /\ lastOp' = [lastOp EXCEPT ![s] =
                        [op |-> "__aenter__", raised |-> EnterCalls[k + 1]]]
    /\ UNCHANGED <<now, disk, indexFile, index_file, file_index, metadata_cache,
                   frame, pending>>

----------------------------------------------------------------------------
(* refresh_index *)

\* the position after a call made at position p returns
Returned(p) == IF p = "startup_refresh" THEN "ready" ELSE p

\* refresh_index skips a scanned path that is no regular file or whose name
\* starts with '.mcp_'
Indexable(n, file) == file.exists /\ ~StartsWith(n, McpPrefix)

\* one iteration of the scan loop: new_index after the file at n is handled
ScanOne(new_index, n, file, statOk, readable) ==
    IF Indexable(n, file)
    THEN Put(new_index, n, GetFileMetadata(n, file, statOk, readable))
    ELSE new_index

\* (mutant) the loop fills self.file_index itself
ScanEffectInPlace(s, new_index) ==
    [file_index |-> new_index, new_index |-> new_index]

\* what the loop writes: the fresh container, self.file_index left alone
ScanEffect(s, new_index) ==
    [file_index |-> file_index[s], new_index |-> new_index]

\* refresh_index is entered: new_index = {} and the tree walk starts
RefreshBegin(s) ==
    /\ pc[s] \in {"initialized", "ready"}
    /\ frame[s].kind = "none"
    /\ frame' = [frame EXCEPT ![s] =
                    [kind |-> "scan", todo |-> RegularFiles, listing |-> RegularFiles,
                     new_index |-> EmptyDict]]
    /\ pc' = [pc EXCEPT ![s] = IF pc[s] = "initialized" THEN "startup_refresh" ELSE @]
    /\ IF pc[s] = "ready" THEN CountOp ELSE UNCHANGED <<spent, now>>
    /\ UNCHANGED <<disk, indexFile, index_file, channel, file_index,
                   metadata_cache, pending, lastOp>>

\* the loop body for the next path of the walk
RefreshScan(s) ==
    /\ frame[s].kind = "scan"
    /\ frame[s].todo # {}
    /\ LET n == CHOOSE f \in frame[s].todo : TRUE
           file == FileAt(disk, indexFile, n)
       IN  \E statOk, readable \in BOOLEAN :
             LET e == ScanEffect(s, ScanOne(frame[s].new_index, n, file, statOk, readable))
             IN  /\ ~(statOk /\ readable) => Indexable(n, file)
                 /\ CountFault(statOk /\ readable)
                 /\ frame' = [frame EXCEPT ![s].todo = @ \ {n},
                                           ![s].new_index = e.new_index]
                 /\ file_index' = [file_index EXCEPT ![s] = e.file_index]
    /\ UNCHANGED <<now, disk, indexFile, index_file, pc, channel, metadata_cache,
                   pending, lastOp>>

\* the walk is over: self.file_index = new_index
RefreshSwap(s) ==
    /\ frame[s].kind = "scan"
    /\ frame[s].todo = {}
    /\ file_index' = [file_index EXCEPT ![s] = frame[s].new_index]
    /\ frame' = [frame EXCEPT ![s] = NoFrame]
    /\ pc' = [pc EXCEPT ![s] = Returned(@)]
    /\ lastOp' = [lastOp EXCEPT ![s] = [op |-> "refresh_index", ok |-> TRUE]]
    /\ UNCHANGED <<now, disk, indexFile, index_file, channel, metadata_cache, pending,
                   spent>>

\* the walk raises (a directory that cannot be listed): caught at line 169
RefreshFail(s) ==
    /\ frame[s].kind = "scan"
    /\ frame[s].todo # {}
    /\ frame' = [frame EXCEPT ![s] = NoFrame]
    /\ pc' = [pc EXCEPT ![s] = Returned(@)]
    /\ lastOp' = [lastOp EXCEPT ![s] = [op |-> "refresh_index", ok |-> FALSE]]
    /\ CountFault(FALSE)
    /\ UNCHANGED <<now, disk, indexFile, index_file, channel, file_index,
                   metadata_cache, pending>>

----------------------------------------------------------------------------
(* _save_index *)

\* the frame of a _save_index call: index_data is built, the file not yet opened
SaveFrame(caller) ==
    [kind |-> "save", opened |-> FALSE, written |-> 0, stamp |-> now, caller |-> caller]

\* the call that made _save_index returns, reporting whether the index was saved
SaveReturns(s, saved) ==
    /\ frame' = [frame EXCEPT ![s] = NoFrame]
    /\ lastOp' = [lastOp EXCEPT ![s] = frame[s].caller @@ [saved |-> saved]]
    /\ pc' = [pc EXCEPT ![s] = IF @ = "exit_save" THEN "exit_session" ELSE @]

\* open(self.index_file, 'w'): truncates the file, or raises
SaveOpen(s) ==
    /\ frame[s].kind = "save"
    /\ ~frame[s].opened
    /\ \E ok \in BOOLEAN :
         /\ CountFault(ok)
         /\ IF ok
            THEN /\ indexFile' = [exists |-> TRUE, chunks |-> <<>>, stamp |-> now]
                 /\ frame' = [frame EXCEPT ![s].opened = TRUE]
                 /\ UNCHANGED <<pc, lastOp>>
            ELSE /\ SaveReturns(s, FALSE)
                 /\ UNCHANGED indexFile
    /\ UNCHANGED <<now, disk, index_file, channel, file_index, metadata_cache, pending>>

\* json.dump writes the next member of the document; the last one ends the call
SaveWrite(s) ==
    /\ frame[s].kind = "save"
    /\ frame[s].opened
    /\ LET doc == IndexDocument(file_index[s], metadata_cache[s], frame[s].stamp)
           k == frame[s].written + 1
       IN  /\ indexFile' = [exists |-> TRUE,
                            chunks |-> WriteAt(indexFile.chunks, k - 1, doc[k]),
                            stamp |-> now]
           /\ IF k = Len(doc)
              THEN SaveReturns(s, TRUE)
              ELSE /\ frame' = [frame EXCEPT ![s].written = k]
                   /\ UNCHANGED <<pc, lastOp>>
    /\ UNCHANGED <<now, disk, index_file, channel, file_index, metadata_cache, pending,
                   spent>>

\* json.dump or the write raises: caught at line 109, the file left as written so far
SaveFail(s) ==
    /\ frame[s].kind = "save"
    /\ frame[s].opened
    /\ SaveReturns(s, FALSE)
    /\ CountFault(FALSE)
    /\ UNCHANGED <<now, disk, indexFile, index_file, channel, file_index,
                   metadata_cache, pending>>

----------------------------------------------------------------------------
(* Operations of a ready session *)

\* the event loop can start or resume a coroutine of session s
Idle(s) == pc[s] = "ready" /\ frame[s].kind = "none"

\* replies of session.call_tool: the tool ran, the result reports an error,
\* the result has no content, the call raises
WriteReplies == {"ack", "error", "raise"}
ReadReplies == {"text", "error", "empty", "raise"}

\* the text of an error result
ErrorText == <<"E">>

None == [some |-> FALSE, text |-> <<>>]
Some(text) == [some |-> TRUE, text |-> text]

\* write_file up to its await: the request is sent
WriteCall(s, p, c) ==
    /\ Idle(s)
    /\ Cardinality(pending[s]) < MaxPending
    /\ CountOp
    /\ pending' = [pending EXCEPT ![s] = @ \cup {[op |-> "write_file", path |-> p, content |-> c]}]
    /\ UNCHANGED <<disk, indexFile, index_file, pc, channel, file_index,
                   metadata_cache, frame, lastOp>>

\* (mutant) the new record is laid over the entry the mapping held
WriteFileResumeKeeps(s, p, reply, file, statOk, readable) ==
    IF reply = "raise"
    THEN [file_index |-> file_index[s], ret |-> FALSE]
    ELSE [file_index |-> IF file.exists
                         THEN Put(file_index[s], p,
                                  Update(Get(file_index[s], p, EmptyDict),
                                         GetFileMetadata(p, file, statOk, readable)))
                         ELSE file_index[s],
          ret |-> TRUE]

\* write_file after its await (lines 208-217): the mapping and the value
\* returned; relative_to raising ValueError is caught like a raising call
WriteFileResume(s, p, reply, file, statOk, readable) ==
    LET absolute_path == AbsolutePath(p)
        relative_path == RelativeTo(absolute_path)
    IN  IF reply = "raise" \/ (file.exists /\ ~IsRelativeTo(absolute_path))
        THEN [file_index |-> file_index[s], ret |-> FALSE]
        ELSE [file_index |-> IF file.exists
                             THEN Put(file_index[s], relative_path,
                                      GetFileMetadata(relative_path, file, statOk, readable))
                             ELSE file_index[s],
              ret |-> TRUE]

\* the channel answers and write_file runs to its return
WriteReturn(s, call) ==
    /\ Idle(s)
    /\ call \in pending[s]
    /\ call.op = "write_file"
    /\ \E reply \in WriteReplies, statOk, readable \in BOOLEAN :
         LET place == Place(AbsolutePath(call.path))
             file == IF reply = "ack" THEN File(call.content, now) ELSE disk[place]
             r == WriteFileResume(s, call.path, reply, file, statOk, readable)
         IN  /\ ~(statOk /\ readable) =>
                    (reply # "raise" /\ file.exists /\ IsRelativeTo(AbsolutePath(call.path)))
             /\ CountFault(reply = "ack" /\ statOk /\ readable)
             /\ disk' = [disk EXCEPT ![place] = file]
             /\ file_index' = [file_index EXCEPT ![s] = r.file_index]
             /\ lastOp' = [lastOp EXCEPT ![s] = call @@ [reply |-> reply, ret |-> r.ret]]
    /\ pending' = [pending EXCEPT ![s] = @ \ {call}]
    /\ UNCHANGED <<now, indexFile, index_file, pc, channel, metadata_cache, frame>>

\* read_file up to its await
ReadCall(s, p) ==
    /\ Idle(s)
    /\ Cardinality(pending[s]) < MaxPending
    /\ CountOp
    /\ pending' = [pending EXCEPT ![s] = @ \cup {[op |-> "read_file", path |-> p]}]
    /\ UNCHANGED <<disk, indexFile, index_file, pc, channel, file_index,
                   metadata_cache, frame, lastOp>>

\* (mutant) the access time is stored whether or not the path is indexed
ReadFileResumeCreates(s, p, reply) ==
    [file_index |-> Put(file_index[s], p,
                        Put(Get(file_index[s], p, EmptyDict), "last_accessed", now)),
     ret |-> IF reply = "text" THEN Some(disk[p].content) ELSE None]

\* read_file after its await (lines 182-192); relative_to raising ValueError
\* is caught like a raising call
ReadFileResume(s, p, reply) ==
    LET absolute_path == AbsolutePath(p)
        relative_path == RelativeTo(absolute_path)
    IN  IF reply = "raise" \/ ~IsRelativeTo(absolute_path)
        THEN [file_index |-> file_index[s], ret |-> None]
        ELSE [file_index |-> IF relative_path \in DOMAIN file_index[s]
                             THEN Put(file_index[s], relative_path,
                                      Put(file_index[s][relative_path], "last_accessed", now))
                             ELSE file_index[s],
              ret |-> CASE reply = "text" -> Some(disk[Place(absolute_path)].content)
                        [] reply = "error" -> Some(ErrorText)
                        [] OTHER -> None]

\* the channel answers and read_file runs to its return
ReadReturn(s, call) ==
    /\ Idle(s)
    /\ call \in pending[s]
    /\ call.op = "read_file"
    /\ \E reply \in ReadReplies :
         /\ reply = "text" => disk[Place(AbsolutePath(call.path))].exists
         /\ CountFault(reply = "text"
                        \/ (reply = "error" /\ ~disk[Place(AbsolutePath(call.path))].exists))
         /\ LET r == ReadFileResume(s, call.path, reply)
            IN  /\ file_index' = [file_index EXCEPT ![s] = r.file_index]
                /\ lastOp' = [lastOp EXCEPT ![s] = call @@ [reply |-> reply, ret |-> r.ret]]
    /\ pending' = [pending EXCEPT ![s] = @ \ {call}]
    /\ UNCHANGED <<now, disk, indexFile, index_file, pc, channel, metadata_cache, frame>>

\* list_directory up to its await
ListCall(s, p) ==
    /\ Idle(s)
    /\ Cardinality(pending[s]) < MaxPending
    /\ CountOp
    /\ pending' = [pending EXCEPT ![s] = @ \cup {[op |-> "list_directory", path |-> p]}]
    /\ UNCHANGED <<disk, indexFile, index_file, pc, channel, file_index,
                   metadata_cache, frame, lastOp>>

\* the channel answers and list_directory runs to its return: the lines of
\* the text, [] when the result has no content or the call raises
ListReturn(s, call) ==
    /\ Idle(s)
    /\ call \in pending[s]
    /\ call.op = "list_directory"
    /\ \E reply \in ReadReplies :
         /\ CountFault(reply = "text")
         /\ lastOp' = [lastOp EXCEPT ![s] =
                call @@ [reply |-> reply,
                         ret |-> CASE reply = "text" -> RegularFiles
                                   [] reply = "error" -> {ErrorText}
                                   [] OTHER -> {}]]
    /\ pending' = [pending EXCEPT ![s] = @ \ {call}]
    /\ UNCHANGED <<now, disk, indexFile, index_file, pc, channel, file_index,
                   metadata_cache, frame>>

\* get_file_metadata: self.file_index.get(filepath)
GetFileMetadataOf(s, p) ==
    /\ Idle(s)
    /\ CountOp
    /\ lastOp' = [lastOp EXCEPT ![s] =
            [op |-> "get_file_metadata", path |-> p,
             found |-> p \in DOMAIN file_index[s],
             ret |-> Get(file_index[s], p, EmptyDict)]]
    /\ UNCHANGED <<disk, indexFile, index_file, pc, channel, file_index,
                   metadata_cache, frame, pending>>

\* (mutant) the custom metadata is replaced by the new dictionary
AddCustomMetadataReplaces(record, metadata) ==
    Put(record, "custom_metadata", metadata)

\* lines 288-290: the record with metadata merged into its custom_metadata
AddCustomMetadata(record, metadata) ==
    Put(record, "custom_metadata",
        Update(Get(record, "custom_metadata", EmptyDict), metadata))

\* add_file_metadata: merge, then _save_index; nothing for a path not indexed
AddFileMetadata(s, p, metadata) ==
    /\ Idle(s)
    /\ CountOp
    /\ LET call == [op |-> "add_file_metadata", path |-> p, metadata |-> metadata]
       IN  IF p \in DOMAIN file_index[s]
           THEN /\ file_index' = [file_index EXCEPT ![s] =
                       Put(@, p, AddCustomMetadata(@[p], metadata))]
                /\ frame' = [frame EXCEPT ![s] = SaveFrame(call @@ [applied |-> TRUE])]
                /\ UNCHANGED lastOp
           ELSE /\ lastOp' = [lastOp EXCEPT ![s] =
                       call @@ [applied |-> FALSE, saved |-> FALSE]]
                /\ UNCHANGED <<file_index, frame>>
    /\ UNCHANGED <<disk, indexFile, index_file, pc, channel, metadata_cache, pending>>

----------------------------------------------------------------------------
(* Queries over the mapping *)

\* (mutant) the comparisons are strict: the case must agree, the size exceed
MatchesStrictly(filepath, metadata, query, search_type) ==
    CASE search_type = "name" -> Contains(Get(metadata, "name", <<>>), query)
      [] search_type = "extension" -> Get(metadata, "extension", <<>>) = query
      [] search_type = "path" -> Contains(filepath, query)
      [] search_type = "size" ->
            IsInt(query) /\ Get(metadata, "size", 0) > IntOf(query)
      [] OTHER -> FALSE

\* whether search_files matches the entry at filepath
Matches(filepath, metadata, query, search_type) ==
    CASE search_type = "name" ->
            Contains(Lower(Get(metadata, "name", <<>>)), Lower(query))
      [] search_type = "extension" ->
            Lower(Get(metadata, "extension", <<>>)) = Lower(query)
      [] search_type = "path" ->
            Contains(Lower(filepath), Lower(query))
      [] search_type = "size" ->
            IsInt(query) /\ Get(metadata, "size", 0) >= IntOf(query)
      [] OTHER -> FALSE

\* search_files: the entries returned, as path/metadata pairs
SearchFilesResult(index, query, search_type) ==
    {[path |-> f, metadata |-> index[f]] :
        f \in {g \in DOMAIN index : Matches(g, index[g], query, search_type)}}

RECURSIVE SumSizes(_, _)
SumSizes(index, keys) ==
    IF keys = {} THEN 0
    ELSE LET k == CHOOSE x \in keys : TRUE
         IN  Get(index[k], "size", 0) + SumSizes(index, keys \ {k})

NoExtension == <<"no extension">>

\* round(total_size / (1024 * 1024), 2), in hundredths of a megabyte; a size
\* of the model is far below the half hundredth that would round up
SizeMbHundredths(total) == (total * 100) \div (1024 * 1024)

\* (mutant) an empty mapping gets an aggregate of zeros
FileStatsOfZeros(index) ==
    LET exts == {Get(index[f], "extension", NoExtension) : f \in DOMAIN index}
    IN  [total_files |-> Cardinality(DOMAIN index),
         total_size_bytes |-> SumSizes(index, DOMAIN index),
         total_size_mb |-> SizeMbHundredths(SumSizes(index, DOMAIN index)),
         extensions |-> [e \in exts |->
             Cardinality({f \in DOMAIN index :
                 Get(index[f], "extension", NoExtension) = e})],
         last_indexed |-> now]

\* get_file_stats
FileStats(index) ==
    IF DOMAIN index = {} THEN EmptyDict
    ELSE LET exts == {Get(index[f], "extension", NoExtension) : f \in DOMAIN index}
         IN  [total_files |-> Cardinality(DOMAIN index),
              total_size_bytes |-> SumSizes(index, DOMAIN index),
              total_size_mb |-> SizeMbHundredths(SumSizes(index, DOMAIN index)),
              extensions |-> [e \in exts |->
                  Cardinality({f \in DOMAIN index :
                      Get(index[f], "extension", NoExtension) = e})],
              last_indexed |-> now]

\* the queries made of search_files
SearchInputs == {<<<<".", "T">>, "extension">>, <<<<"1">>, "size">>}

\* search_files and get_file_stats have no await: they run whenever they are
\* called on a ready session, whatever the session has in progress
SearchFiles(s, query, search_type) ==
    /\ pc[s] = "ready"
    /\ CountOp
    /\ lastOp' = [lastOp EXCEPT ![s] =
            [op |-> "search_files", query |-> query, search_type |-> search_type,
             during |-> frame[s].kind,
             ret |-> SearchFilesResult(file_index[s], query, search_type)]]
    /\ UNCHANGED <<disk, indexFile, index_file, pc, channel, file_index,
                   metadata_cache, frame, pending>>

GetFileStats(s) ==
    /\ pc[s] = "ready"
    /\ CountOp
    /\ lastOp' = [lastOp EXCEPT ![s] =
            [op |-> "get_file_stats", during |-> frame[s].kind,
             ret |-> FileStats(file_index[s])]]
    /\ UNCHANGED <<disk, indexFile, index_file, pc, channel, file_index,
                   metadata_cache, frame, pending>>

\* export_data, as json.dump writes it, member by member
ExportDocument(index) ==
    << <<"base_directory", BaseDirectory>>,
       <<"export_time", now>>,
       <<"stats", FileStats(index)>>,
       <<"file_index", index>> >>

\* destinations given to export_index: a file of its own, or the path of the
\* index file
ExportPaths == {PathExport, AbsolutePath(index_file)}

\* export_index: open(export_path, 'w') truncates the destination, json.dump
\* fills it; either can raise, which is caught and reported as False
ExportIndex(s, export_path) ==
    /\ Idle(s)
    /\ \E written \in 0..Len(ExportDocument(file_index[s])), opened \in BOOLEAN :
         LET doc == ExportDocument(file_index[s])
             ok == opened /\ written = Len(doc)
             content == SubSeq(doc, 1, written)
         IN  /\ ~opened => written = 0
             /\ CountOpWithFault(ok)
             /\ IF ~opened
                THEN UNCHANGED <<disk, indexFile>>
                ELSE IF export_path = AbsolutePath(index_file)
                THEN /\ indexFile' = [exists |-> TRUE, chunks |-> content, stamp |-> now]
                     /\ UNCHANGED disk
                ELSE /\ disk' = [disk EXCEPT ![Place(export_path)] = File(content, now)]
                     /\ UNCHANGED indexFile
             /\ lastOp' = [lastOp EXCEPT ![s] =
                    [op |-> "export_index", export_path |-> export_path, ret |-> ok]]
    /\ UNCHANGED <<index_file, pc, channel, file_index, metadata_cache, frame, pending>>

----------------------------------------------------------------------------
(* __aexit__ *)

\* what __aexit__ does first: _save_index on the current mapping
ExitFrame(exc) == SaveFrame([op |-> "__aexit__", exc |-> exc])

\* the async with block is left, normally or by an exception of its body
Exit(s) ==
    /\ Idle(s)
    /\ pending[s] = {}
    /\ \E exc \in BOOLEAN :
         frame' = [frame EXCEPT ![s] = ExitFrame(exc)]
    /\ pc' = [pc EXCEPT ![s] = "exit_save"]
    /\ UNCHANGED <<now, disk, indexFile, index_file, channel, file_index,
                   metadata_cache, pending, lastOp, spent>>

\* (mutant) a close that fails ends __aexit__ with the exception
ExitChannelRaises(s) ==
    /\ pc[s] = "exit_session"
    /\ \E okSession, okStdio \in BOOLEAN :
         /\ ~okSession => okStdio
         /\ CountFaults((IF okSession THEN 0 ELSE 1) + (IF okStdio THEN 0 ELSE 1))
         /\ channel' = [channel EXCEPT ![s] =
                [session |-> IF okSession THEN "closed" ELSE "failed",
                 stdio |-> IF ~okSession THEN @.stdio
                           ELSE IF okStdio THEN "closed" ELSE "failed"]]
         /\ pc' = [pc EXCEPT ![s] = IF okSession /\ okStdio THEN "exited" ELSE "raised"]
    /\ UNCHANGED <<now, disk, indexFile, index_file, file_index, metadata_cache,
                   frame, pending, lastOp>>

\* lines 66-79: the client session, then the transport, are closed; a failure
\* of either is ignored
ExitChannel(s) ==
    /\ pc[s] = "exit_session"
    /\ \E okSession, okStdio \in BOOLEAN :
         /\ CountFaults((IF okSession THEN 0 ELSE 1) + (IF okStdio THEN 0 ELSE 1))
         /\ channel' = [channel EXCEPT ![s] =
                [session |-> IF okSession THEN "closed" ELSE "failed",
                 stdio |-> IF okStdio THEN "closed" ELSE "failed"]]
    /\ pc' = [pc EXCEPT ![s] = "exited"]
    /\ UNCHANGED <<now, disk, indexFile, index_file, file_index, metadata_cache,
                   frame, pending, lastOp>>

----------------------------------------------------------------------------
(* The environment *)

\* a file is deleted from disk by something other than the sessions
ExternalDelete(n) ==
    /\ disk[n].exists
    /\ CountOp
    /\ disk' = [disk EXCEPT ![n] = NoFile]
    /\ UNCHANGED <<indexFile, index_file, pc, channel, file_index,
                   metadata_cache, frame, pending, lastOp>>

----------------------------------------------------------------------------
(* Specifications *)

SessionStep(s) ==
    \/ Construct(s) /\ UNCHANGED dispatch
    \/ Enter(s) /\ UNCHANGED dispatch
    \/ RefreshBegin(s) /\ UNCHANGED dispatch
    \/ RefreshScan(s) /\ UNCHANGED dispatch
    \/ RefreshSwap(s) /\ UNCHANGED dispatch
    \/ RefreshFail(s) /\ UNCHANGED dispatch
    \/ SaveOpen(s) /\ UNCHANGED dispatch
    \/ SaveWrite(s) /\ UNCHANGED dispatch
    \/ SaveFail(s) /\ UNCHANGED dispatch
    \/ (\E p \in Names, c \in Contents : WriteCall(s, p, c)) /\ UNCHANGED dispatch
    \/ (\E call \in pending[s] : WriteReturn(s, call)) /\ UNCHANGED dispatch
    \/ (\E p \in Names : ReadCall(s, p)) /\ UNCHANGED dispatch
    \/ (\E call \in pending[s] : ReadReturn(s, call)) /\ UNCHANGED dispatch
    \/ (\E p \in Names, m \in MetaDicts : AddFileMetadata(s, p, m)) /\ UNCHANGED dispatch
    \/ (\E q \in SearchInputs : SearchFiles(s, q[1], q[2])) /\ UNCHANGED dispatch
    \/ GetFileStats(s) /\ UNCHANGED dispatch
    \/ Exit(s) /\ UNCHANGED dispatch
    \/ ExitChannel(s) /\ UNCHANGED dispatch

Environment ==
    (\E n \in Names : ExternalDelete(n)) /\ UNCHANGED dispatch

\* one session on the base directory
Next ==
    \/ SessionStep("s1")
    \/ Environment

Spec == Init /\ [][Next]_vars

\* session s1 is ready, its startup refresh done, when session s2 is constructed;
\* both use the default index file name
InitTwo ==
    /\ now = 0
    /\ disk = [n \in Places |-> IF n \in {NameA, PathOut} THEN File(OldContent, 0)
                                ELSE NoFile]
    /\ index_file = DefaultIndexName
    /\ indexFile = [exists |-> TRUE, chunks |-> PriorDocument, stamp |-> 0]
    /\ pc = [s \in Sessions |-> IF s = "s1" THEN "ready" ELSE "new"]
    /\ channel = [s \in Sessions |->
                    IF s = "s1" THEN ChannelAfter(Len(EnterCalls)) ELSE NoChannel]
    /\ file_index = [s \in Sessions |->
                       IF s = "s1"
                       THEN NameA :> GetFileMetadata(NameA, disk[NameA], TRUE, TRUE)
                       ELSE EmptyDict]
    /\ metadata_cache = [s \in Sessions |-> EmptyDict]
    /\ frame = [s \in Sessions |-> NoFrame]
    /\ pending = [s \in Sessions |-> {}]
    /\ lastOp = [s \in Sessions |->
                   IF s = "s1" THEN [op |-> "refresh_index", ok |-> TRUE]
                   ELSE [op |-> "none"]]
    /\ spent = [ops |-> 0, faults |-> 0]
    /\ dispatch = NoDispatch

\* two sessions on the same base directory, each adding custom metadata and closing
NextTwo ==
    \E s \in Sessions :
        \/ Construct(s) /\ UNCHANGED dispatch
        \/ Enter(s) /\ UNCHANGED dispatch
        \/ RefreshBegin(s) /\ UNCHANGED dispatch
        \/ RefreshScan(s) /\ UNCHANGED dispatch
        \/ RefreshSwap(s) /\ UNCHANGED dispatch
        \/ RefreshFail(s) /\ UNCHANGED dispatch
        \/ SaveOpen(s) /\ UNCHANGED dispatch
        \/ SaveWrite(s) /\ UNCHANGED dispatch
        \/ SaveFail(s) /\ UNCHANGED dispatch
        \/ (\E m \in MetaDicts : AddFileMetadata(s, NameA, m)) /\ UNCHANGED dispatch
        \/ Exit(s) /\ UNCHANGED dispatch
        \/ ExitChannel(s) /\ UNCHANGED dispatch

SpecTwo == InitTwo /\ [][NextTwo]_vars

\* one session after the other on the same base directory: session s2 is
\* constructed once session s1 is closed
NextRestart ==
    \/ RefreshBegin("s1") /\ UNCHANGED dispatch
    \/ (\E m \in MetaDicts : AddFileMetadata("s1", NameA, m)) /\ UNCHANGED dispatch
    \/ pc["s1"] = "exited" /\ Construct("s2") /\ UNCHANGED dispatch
    \/ pc["s2"] # "ready" /\ RefreshBegin("s2") /\ UNCHANGED dispatch
    \/ \E s \in Sessions :
          \/ Enter(s) /\ UNCHANGED dispatch
          \/ RefreshScan(s) /\ UNCHANGED dispatch
          \/ RefreshSwap(s) /\ UNCHANGED dispatch
          \/ RefreshFail(s) /\ UNCHANGED dispatch
          \/ SaveOpen(s) /\ UNCHANGED dispatch
          \/ SaveWrite(s) /\ UNCHANGED dispatch
          \/ SaveFail(s) /\ UNCHANGED dispatch
          \/ Exit(s) /\ UNCHANGED dispatch
          \/ ExitChannel(s) /\ UNCHANGED dispatch

SpecRestart == InitTwo /\ [][NextRestart]_vars

----------------------------------------------------------------------------
(* handle_function_call *)

\* the names of the tools offered to the language model
FunctionNames ==
    {"read_file", "write_file", "refresh_filesystem_index", "list_directory",
     "search_files", "get_file_stats", "add_file_metadata", "get_file_metadata",
     "export_index"}

\* a name that is not a tool's
UnknownFunction == "delete_file"

\* the names handle_function_call has a branch for
Branches ==
    {"read_file", "write_file", "refresh_filesystem_index", "list_directory",
     "search_files", "get_file_metadata", "add_file_metadata", "export_index"}

\* the manager method a branch calls
ManagerMethod(function_name) ==
    IF function_name = "refresh_filesystem_index" THEN "refresh_index" ELSE function_name

\* the manager methods that are coroutines (async def); awaiting what any
\* other method returns raises TypeError
Coroutines == {"read_file", "write_file", "refresh_index", "list_directory"}

\* what handle_function_call makes of the value its call returned
HandleReply(function_name, op) ==
    CASE ManagerMethod(function_name) \notin Coroutines -> "TypeError"
      [] function_name = "read_file" ->
            IF op.ret.some /\ op.ret.text # <<>> THEN "content" ELSE "no content"
      [] function_name = "write_file" -> IF op.ret THEN "written" ELSE "not written"
      [] function_name = "refresh_filesystem_index" -> "refreshed"
      [] OTHER -> "listing"

\* handle_function_call(function_name, arguments) is called: the manager is
\* about to be constructed on '../my_files' with the default index file name
InitDispatch ==
    /\ now = 0
    /\ disk = [n \in Places |-> IF n \in {NameA, PathOut} THEN File(OldContent, 0)
                                ELSE NoFile]
    /\ index_file = DefaultIndexName
    /\ indexFile \in {NoIndexFile,
                      [exists |-> TRUE, chunks |-> PriorDocument, stamp |-> 0]}
    /\ pc = [s \in Sessions |-> "new"]
    /\ channel = [s \in Sessions |-> NoChannel]
    /\ file_index = [s \in Sessions |-> EmptyDict]
    /\ metadata_cache = [s \in Sessions |-> EmptyDict]
    /\ frame = [s \in Sessions |-> NoFrame]
    /\ pending = [s \in Sessions |-> {}]
    /\ lastOp = [s \in Sessions |-> [op |-> "none"]]
    /\ spent = [ops |-> 0, faults |-> 0]
    /\ \E function_name \in FunctionNames \cup {UnknownFunction} :
          dispatch = [function_name |-> function_name, at |-> "call", reply |-> "none"]

\* the body of the async with block reaches the branch of function_name and
\* calls the manager with the arguments given
DispatchCall(s) ==
    /\ dispatch.at = "call"
    /\ pc[s] = "ready"
    /\ dispatch.function_name \in Branches
    /\ \/ /\ dispatch.function_name = "read_file"
          /\ \E p \in Paths : ReadCall(s, p)
       \/ /\ dispatch.function_name = "write_file"
          /\ \E p \in Paths, c \in Contents : WriteCall(s, p, c)
       \/ /\ dispatch.function_name = "refresh_filesystem_index"
          /\ RefreshBegin(s)
       \/ /\ dispatch.function_name = "list_directory"
          /\ ListCall(s, <<".">>)
       \/ /\ dispatch.function_name = "search_files"
          /\ \E q \in SearchInputs : SearchFiles(s, q[1], q[2])
       \/ /\ dispatch.function_name = "get_file_metadata"
          /\ \E p \in Paths : GetFileMetadataOf(s, p)
       \/ /\ dispatch.function_name = "add_file_metadata"
          /\ \E p \in Paths, m \in MetaDicts : AddFileMetadata(s, p, m)
       \/ /\ dispatch.function_name = "export_index"
          /\ \E export_path \in ExportPaths : ExportIndex(s, export_path)
    /\ dispatch' = [dispatch EXCEPT !.at = "awaiting"]

\* line 193: no branch for function_name
DispatchUnsupported(s) ==
    /\ dispatch.at = "call"
    /\ pc[s] = "ready"
    /\ dispatch.function_name \notin Branches
    /\ dispatch' = [dispatch EXCEPT !.at = "leaving", !.reply = "unsupported"]
    /\ UNCHANGED managerVars

\* the manager method has returned: its value is awaited where the branch
\* says await, and made into the reply
DispatchResume(s) ==
    /\ dispatch.at = "awaiting"
    /\ Idle(s)
    /\ pending[s] = {}
    /\ dispatch' = [dispatch EXCEPT !.at = "leaving",
                                    !.reply = HandleReply(dispatch.function_name, lastOp[s])]
    /\ UNCHANGED managerVars

\* the async with block is left, by the return or by the TypeError
DispatchExit(s) ==
    /\ dispatch.at = "leaving"
    /\ Exit(s)
    /\ frame'[s].caller.exc = (dispatch.reply = "TypeError")
    /\ dispatch' = [dispatch EXCEPT !.at = "exiting"]

\* the steps __aexit__ takes by itself, each of them a step of NextDispatch
ClosingStep(s) ==
    /\ Phase(s) = "Closing"
    /\ SaveOpen(s) \/ SaveWrite(s) \/ SaveFail(s) \/ ExitChannel(s)
    /\ UNCHANGED dispatch

\* one call of handle_function_call, from the construction of its manager
NextDispatch ==
    \/ Construct("s1") /\ UNCHANGED dispatch
    \/ Enter("s1") /\ UNCHANGED dispatch
    \/ pc["s1"] = "initialized" /\ RefreshBegin("s1") /\ UNCHANGED dispatch
    \/ RefreshScan("s1") /\ UNCHANGED dispatch
    \/ RefreshSwap("s1") /\ UNCHANGED dispatch
    \/ RefreshFail("s1") /\ UNCHANGED dispatch
    \/ DispatchCall("s1")
    \/ DispatchUnsupported("s1")
    \/ (\E call \in pending["s1"] : WriteReturn("s1", call)) /\ UNCHANGED dispatch
    \/ (\E call \in pending["s1"] : ReadReturn("s1", call)) /\ UNCHANGED dispatch
    \/ (\E call \in pending["s1"] : ListReturn("s1", call)) /\ UNCHANGED dispatch
    \/ SaveOpen("s1") /\ UNCHANGED dispatch
    \/ SaveWrite("s1") /\ UNCHANGED dispatch
    \/ SaveFail("s1") /\ UNCHANGED dispatch
    \/ DispatchResume("s1")
    \/ DispatchExit("s1")
    \/ ExitChannel("s1") /\ UNCHANGED dispatch

\* __aexit__ is a coroutine the event loop runs on: once entered it goes on
SpecDispatch ==
    InitDispatch /\ [][NextDispatch]_vars /\ WF_vars(ClosingStep("s1"))

\* the records _get_file_metadata can have made of a file at name n
RecordsOf(n) ==
    {GetFileMetadata(n, File(c, 0), statOk, TRUE) :
        c \in {OldContent} \cup Contents, statOk \in BOOLEAN}

\* the mappings a ready session can hold over the names of the model
QueryMappings ==
    UNION {[keys -> UNION {RecordsOf(n) : n \in keys}] : keys \in SUBSET Names}

\* the queries made of search_files: each mode, either case, a numeral below
\* and one above a size, a string that is no numeral, a mode that is none
Queries ==
    SearchInputs \cup
    {<<<<"a", ".">>, "name">>, <<<<"P", "_">>, "name">>, <<<<"T">>, "path">>,
     <<<<".", "t">>, "extension">>, <<<<>>, "extension">>, <<<<"2">>, "size">>,
     <<<<"1", "0">>, "size">>, <<<<"x">>, "size">>, <<<<>>, "size">>,
     <<<<"A">>, "kind">>}

\* a ready session holding one of the mappings, the index file saved earlier
InitQueries ==
    /\ now = 0
    /\ disk = [n \in Places |-> IF n \in {NameA, PathOut} THEN File(OldContent, 0)
                                ELSE NoFile]
    /\ index_file = DefaultIndexName
    /\ indexFile = [exists |-> TRUE, chunks |-> PriorDocument, stamp |-> 0]
    /\ pc = [s \in Sessions |-> IF s = "s1" THEN "ready" ELSE "new"]
    /\ channel = [s \in Sessions |->
                    IF s = "s1" THEN ChannelAfter(Len(EnterCalls)) ELSE NoChannel]
    /\ \E m \in {q \in QueryMappings : \A n \in DOMAIN q : q[n] \in RecordsOf(n)} :
          file_index = [s \in Sessions |-> IF s = "s1" THEN m ELSE EmptyDict]
    /\ metadata_cache = [s \in Sessions |-> EmptyDict]
    /\ frame = [s \in Sessions |-> NoFrame]
    /\ pending = [s \in Sessions |-> {}]
    /\ lastOp = [s \in Sessions |->
                   IF s = "s1" THEN [op |-> "refresh_index", ok |-> TRUE]
                   ELSE [op |-> "none"]]
    /\ spent = [ops |-> 0, faults |-> 0]
    /\ dispatch = NoDispatch

\* the calls that read the mapping: search_files, get_file_stats, export_index
NextQueries ==
    \/ (\E q \in Queries : SearchFiles("s1", q[1], q[2])) /\ UNCHANGED dispatch
    \/ GetFileStats("s1") /\ UNCHANGED dispatch
    \/ (\E export_path \in ExportPaths : ExportIndex("s1", export_path))
          /\ UNCHANGED dispatch

SpecQueries == InitQueries /\ [][NextQueries]_vars

----------------------------------------------------------------------------
(* Claims *)

\* session s leaves refresh_index by the swap at line 166 in this step
RefreshCompletes(s) ==
    /\ frame[s].kind = "scan"
    /\ frame'[s].kind = "none"
    /\ lastOp'[s].op = "refresh_index"
    /\ lastOp'[s].ok

\* C1: after a refresh_index that completes (no file created or deleted during
\* the walk), the keys of the mapping are exactly the regular files under the
\* base directory other than the index file, whatever the index file's name
C1_RefreshKeysAreFilesButIndex ==
    [][\A s \in Sessions :
          (RefreshCompletes(s) /\ frame[s].listing = RegularFiles)
              => DOMAIN file_index'[s] = RegularFiles \ {index_file}]_vars

\* C2: a session that loads the index while another session is inside
\* _save_index finds no file or a complete document, never an empty or
\* partly written one
C2_LoaderSeesCompleteDocument ==
    [][\A s, t \in Sessions :
          (s # t /\ frame[t].kind = "save" /\ pc[s] = "new" /\ pc'[s] = "constructed")
              => (~indexFile.exists \/ Parses(indexFile.chunks))]_vars

\* C3: a step of __aenter__ that meets a failure (opening the channel,
\* initializing the session, the startup refresh_index raising) ends the
\* session start with the exception raised; the session does not go on to Ready
C3_InitFailurePropagates ==
    [][\A s \in Sessions :
          (Phase(s) = "Initializing" /\ pc'[s] # pc[s] /\ spent'.faults > spent.faults)
              => pc'[s] = "raised"]_vars

\* C4: write_file returns True exactly when the channel confirmed the write
C4_WriteSuccessIffConfirmed ==
    \A s \in Sessions :
        lastOp[s].op = "write_file" => (lastOp[s].ret <=> lastOp[s].reply = "ack")

\* a record with its content hash known
Complete(record) == "hash" \in DOMAIN record /\ record.hash # <<>>

\* C5: an iteration of the scan stores no empty or partial record: the record
\* it stores is complete, or is the record the mapping held for that path
C5_FailedExtractionSkipsFile ==
    [][\A s \in Sessions :
          (frame[s].kind = "scan" /\ frame'[s].kind = "scan")
              => \A p \in DOMAIN frame'[s].new_index \ DOMAIN frame[s].new_index :
                    \/ Complete(frame'[s].new_index[p])
                    \/ /\ p \in DOMAIN file_index[s]
                       /\ frame'[s].new_index[p] = file_index[s][p]]_vars

\* C6: a write_file(p, c) that returned True, followed by a read_file(p) the
\* channel served, returns c
C6_ReadAfterWrite ==
    [][\A s \in Sessions :
          (/\ lastOp[s].op = "write_file"
           /\ lastOp[s].ret
           /\ lastOp'[s].op = "read_file"
           /\ lastOp'[s].path = lastOp[s].path
           /\ lastOp'[s].reply = "text")
              => lastOp'[s].ret = Some(lastOp[s].content)]_vars

\* session s applies add_file_metadata to an indexed path in this step
AddApplies(s) ==
    /\ frame[s].kind = "none"
    /\ frame'[s].kind = "save"
    /\ frame'[s].caller.op = "add_file_metadata"

\* C7: add_file_metadata(p, m) on an indexed path merges m into the entry's
\* custom_metadata: m's keys hold m's values, the keys held before and not in
\* m keep theirs (those of an add_file_metadata(p, m1) that returned just
\* before among them), no other field of the entry and no other entry changes
C7_AddMergesCustomMetadata ==
    [][\A s \in Sessions :
          AddApplies(s) =>
            LET p == frame'[s].caller.path
                m == frame'[s].caller.metadata
                old == file_index[s][p]
                new == file_index'[s][p]
                before == Get(old, "custom_metadata", EmptyDict)
            IN  /\ DOMAIN file_index'[s] = DOMAIN file_index[s]
                /\ \A q \in DOMAIN file_index[s] \ {p} :
                      file_index'[s][q] = file_index[s][q]
                /\ DOMAIN new = DOMAIN old \cup {"custom_metadata"}
                /\ \A f \in DOMAIN old \ {"custom_metadata"} : new[f] = old[f]
                /\ DOMAIN new.custom_metadata = DOMAIN before \cup DOMAIN m
                /\ \A k \in DOMAIN m : new.custom_metadata[k] = m[k]
                /\ \A k \in DOMAIN before \ DOMAIN m : new.custom_metadata[k] = before[k]
                /\ (lastOp[s].op = "add_file_metadata" /\ lastOp[s].applied
                        /\ lastOp[s].path = p)
                      => \A k \in DOMAIN lastOp[s].metadata \ DOMAIN m :
                            new.custom_metadata[k] = lastOp[s].metadata[k]]_vars

\* C7 witness: two add_file_metadata calls on the same path returned one after
\* the other, the second overriding the first's author and keeping its category
C7_Witness ==
    \E s \in Sessions :
        /\ lastOp[s].op = "add_file_metadata"
        /\ lastOp[s].applied
        /\ lastOp[s].metadata = [author |-> "test"]
        /\ spent.ops = 2
        /\ lastOp[s].path \in DOMAIN file_index[s]
        /\ "custom_metadata" \in DOMAIN file_index[s][lastOp[s].path]
        /\ \E v \in {"User", "test"} :
              file_index[s][lastOp[s].path].custom_metadata
                  \in {[author |-> "test", category |-> v]}

C9_RefreshSwapsAtOnce ==
    [][\A s \in Sessions :
          frame[s].kind = "scan" =>
            IF frame'[s].kind = "none" /\ lastOp'[s].ok
            THEN file_index'[s] = frame[s].new_index
            ELSE file_index'[s] = file_index[s]]_vars

\* C9 witness: get_file_stats or search_files ran on a ready session in the
\* middle of a scan whose new mapping was partly built
C9_Witness ==
    \E s \in Sessions :
        /\ pc[s] = "ready"
        /\ frame[s].kind = "scan"
        /\ frame[s].todo # {}
        /\ DOMAIN frame[s].new_index # {}
        /\ frame[s].new_index # file_index[s]
        /\ lastOp[s].op \in {"search_files", "get_file_stats"}
        /\ lastOp[s].during = "scan"

\* the moves of a session between positions of its lifecycle
LifecycleMoves ==
    {<<"new", "constructed">>, <<"constructed", "initialized">>,
     <<"constructed", "raised">>, <<"initialized", "startup_refresh">>,
     <<"startup_refresh", "ready">>, <<"ready", "exit_save">>,
     <<"exit_save", "exit_session">>, <<"exit_session", "exited">>}

\* the session moves along the lifecycle, does not change its mapping while
\* closing
LifecycleStep(s) ==
    /\ pc'[s] # pc[s] => <<pc[s], pc'[s]>> \in LifecycleMoves
    /\ Phase(s) = "Closing" => file_index'[s] = file_index[s]

\* the persisted document holds the mapping of session s
Persisted(s) ==
    /\ indexFile.exists
    /\ Parses(indexFile.chunks)
    /\ DocumentGet(indexFile.chunks, "file_index") = file_index[s]

\* C10 as amended: a session moves only along Unopened -> Initializing ->
\* Ready -> Closing -> Closed, or stops in Initializing when its start raises;
\* it loads the index, opens the channel and runs the refresh before Ready;
\* leaving Ready it saves the mapping, then closes the channel; when it is
\* Closed and the save did not fail, the persisted file_index is the mapping
\* it held at the end of Ready
C10_LifecyclePersistsWhenSaved ==
    [][\A s \in Sessions :
          /\ LifecycleStep(s)
          /\ (pc'[s] = "exited" /\ pc[s] # "exited" /\ lastOp'[s].saved) => Persisted(s)']_vars

\* C10 as stated: the same, with the persisted file_index equal to the mapping
\* whenever the session is Closed
C10_LifecyclePersists ==
    [][\A s \in Sessions :
          /\ LifecycleStep(s)
          /\ (pc'[s] = "exited" /\ pc[s] # "exited") => Persisted(s)']_vars

\* C10 witness: a session left Ready through an exception of its body and is
\* Closed, its mapping of one file or more persisted
C10_Witness ==
    \E s \in Sessions :
        /\ pc[s] = "exited"
        /\ lastOp[s].op = "__aexit__"
        /\ lastOp[s].exc
        /\ lastOp[s].saved
        /\ DOMAIN file_index[s] # {}
        /\ Persisted(s)

\* C11: a session that is Closing becomes Closed, whatever fails on the way:
\* a step of __aexit__ that meets a failure (the save, the close of the client
\* session, the close of the transport) still moves on to the next step, never
\* to a raised exception, and on reaching Closed both closes were attempted
C11_ClosingFailuresSwallowed ==
    /\ \A s \in Sessions : (Phase(s) = "Closing") ~> (Phase(s) = "Closed")
    /\ [][\A s \in Sessions :
             (Phase(s) = "Closing" /\ pc'[s] # pc[s]) =>
                /\ <<pc[s], pc'[s]>> \in
                       {<<"exit_save", "exit_session">>, <<"exit_session", "exited">>}
                /\ pc'[s] = "exited" =>
                       /\ channel'[s].session \in {"closed", "failed"}
                       /\ channel'[s].stdio \in {"closed", "failed"}]_vars
    /\ [][\A s \in Sessions :
             (Phase(s) = "Closing" /\ spent'.faults > spent.faults) => pc'[s] # pc[s]]_vars

\* C11 witness: a session is Closed whose transport failed to close after its
\* save and the close of its client session went well
C11_Witness ==
    \E s \in Sessions :
        /\ pc[s] = "exited"
        /\ lastOp[s].op = "__aexit__"
        /\ lastOp[s].saved
        /\ channel[s].session = "closed"
        /\ channel[s].stdio = "failed"

\* C12: _load_index never fails the construction: from an index file that is
\* there, can be read and parses, the mapping and the cache are exactly the
\* document's file_index and metadata_cache; from one that is absent,
\* unreadable or unparseable both are empty
C12_LoadNeverFails ==
    [][\A s \in Sessions :
          (pc[s] = "new" /\ pc'[s] # "new") =>
            /\ pc'[s] = "constructed"
            /\ IF indexFile.exists /\ Parses(indexFile.chunks)
                     /\ spent'.faults = spent.faults
               THEN /\ file_index'[s] = indexFile.chunks[1][2]
                    /\ metadata_cache'[s] = indexFile.chunks[2][2]
               ELSE /\ file_index'[s] = EmptyDict
                    /\ metadata_cache'[s] = EmptyDict]_vars

\* C12 witness: a session was constructed over an index file that holds part
\* of a document and does not parse; its mapping is empty
C12_Witness ==
    \E s \in Sessions :
        /\ pc[s] = "constructed"
        /\ lastOp[s].op = "_load_index"
        /\ lastOp[s].loaded = "error"
        /\ indexFile.exists
        /\ Len(indexFile.chunks) > 0
        /\ ~Parses(indexFile.chunks)
        /\ spent.faults = 0
        /\ file_index[s] = EmptyDict

\* a read_file call of session s returns in this step
ReadReturns(s) ==
    \E call \in pending[s] : call.op = "read_file" /\ call \notin pending'[s]

\* C13: read_file(p) leaves the key set of the mapping as it was; of an
\* indexed p it changes nothing but the entry's last_accessed, of a p not
\* indexed nothing at all; every other entry is unchanged
C13_ReadFileFrame ==
    [][\A s \in Sessions :
          ReadReturns(s) =>
            LET p == lastOp'[s].path
            IN  /\ DOMAIN file_index'[s] = DOMAIN file_index[s]
                /\ \A q \in DOMAIN file_index[s] \ {p} :
                      file_index'[s][q] = file_index[s][q]
                /\ p \in DOMAIN file_index[s] =>
                      /\ DOMAIN file_index'[s][p] \subseteq
                             DOMAIN file_index[s][p] \cup {"last_accessed"}
                      /\ \A f \in DOMAIN file_index[s][p] \ {"last_accessed"} :
                            /\ f \in DOMAIN file_index'[s][p]
                            /\ file_index'[s][p][f] = file_index[s][p][f]]_vars

\* C13 witness: a read_file the channel served returned for an indexed path,
\* whose entry carries the access time, and the mapping holds that path only
C13_Witness ==
    \E s \in Sessions :
        /\ lastOp[s].op = "read_file"
        /\ lastOp[s].reply = "text"
        /\ lastOp[s].path \in DOMAIN file_index[s]
        /\ "last_accessed" \in DOMAIN file_index[s][lastOp[s].path]
        /\ "hash" \in DOMAIN file_index[s][lastOp[s].path]

\* a write_file call of session s returns in this step
WriteReturns(s) ==
    \E call \in pending[s] : call.op = "write_file" /\ call \notin pending'[s]

\* C20: a write_file(p, c) the channel confirmed replaces the entry of p by a
\* record computed afresh (no custom_metadata, no last_accessed carried over;
\* size and hash those of c when the extraction met no fault), leaves every
\* other entry and every other key as they were, and starts no scan
C20_WriteReindexesOneFile ==
    [][\A s \in Sessions :
          (WriteReturns(s) /\ lastOp'[s].reply = "ack" /\ lastOp'[s].ret) =>
            LET p == lastOp'[s].path
                c == lastOp'[s].content
            IN  /\ DOMAIN file_index'[s] = DOMAIN file_index[s] \cup {p}
                /\ \A q \in DOMAIN file_index[s] \ {p} :
                      file_index'[s][q] = file_index[s][q]
                /\ "custom_metadata" \notin DOMAIN file_index'[s][p]
                /\ "last_accessed" \notin DOMAIN file_index'[s][p]
                /\ spent'.faults = spent.faults =>
                      /\ file_index'[s][p].size = Len(c)
                      /\ file_index'[s][p].hash = Sha256(c)
                      /\ file_index'[s][p].indexed_at = now
                /\ frame'[s] = frame[s]]_vars

\* C20 witness: a confirmed write_file returned for a path whose entry had
\* custom metadata, as the index file saved by the add_file_metadata before
\* it still shows; the entry has none now
C20_Witness ==
    \E s \in Sessions :
        /\ index_file = CustomIndexName
        /\ lastOp[s].op = "write_file"
        /\ lastOp[s].reply = "ack"
        /\ lastOp[s].ret
        /\ lastOp[s].path \in DOMAIN file_index[s]
        /\ "custom_metadata" \notin DOMAIN file_index[s][lastOp[s].path]
        /\ "hash" \in DOMAIN file_index[s][lastOp[s].path]
        /\ file_index[s][lastOp[s].path].hash = Sha256(lastOp[s].content)
        /\ indexFile.exists
        /\ Parses(indexFile.chunks)
        /\ lastOp[s].path \in DOMAIN indexFile.chunks[1][2]
        /\ "custom_metadata" \in DOMAIN indexFile.chunks[1][2][lastOp[s].path]

\* session s returns from a call of the named operation in this step
Returns(s, op) == lastOp'[s].op = op /\ spent'.ops > spent.ops

\* the file export_index wrote, as it is after the step
Exported(export_path) ==
    IF export_path = AbsolutePath(index_file) THEN indexFile'.chunks
    ELSE disk'[Place(export_path)].content

\* C14: export_index, whether it returns True or False and whatever the
\* destination, leaves the mapping and the index file as they were; the
\* file_index of a document it reports exported is the mapping
C14_ExportIsIndependentSnapshot ==
    [][\A s \in Sessions :
          Returns(s, "export_index") =>
            /\ file_index'[s] = file_index[s]
            /\ indexFile'.exists = indexFile.exists
            /\ indexFile'.stamp = indexFile.stamp
            /\ Len(indexFile'.chunks) = Len(indexFile.chunks)
            /\ \A i \in 1..Len(indexFile.chunks) :
                  indexFile'.chunks[i][1] = indexFile.chunks[i][1]
            /\ lastOp'[s].ret =>
                  LET out == Exported(lastOp'[s].export_path)
                  IN  /\ Len(out) = 4
                      /\ out[4][1] = "file_index"
                      /\ out[4][2] = file_index[s]]_vars

\* a named field of a record, or the default where the record has none
Field(record, name, default) ==
    IF name \in DOMAIN record THEN record[name] ELSE default

\* sub occurs in str, the case of letters aside
OccursIn(sub, str) ==
    \E i \in 1..(Len(str) + 1), j \in 0..Len(str) :
        /\ j - i + 1 = Len(sub)
        /\ \A k \in 1..Len(sub) : LowerChar(sub[k]) = LowerChar(str[i + k - 1])

\* the entry satisfies the predicate of the search mode (a field the record
\* lacks reads as '' or 0)
Satisfies(path, record, query, mode) ==
    \/ mode = "name" /\ OccursIn(query, Field(record, "name", <<>>))
    \/ mode = "path" /\ OccursIn(query, path)
    \/ /\ mode = "extension"
       /\ Len(query) = Len(Field(record, "extension", <<>>))
       /\ OccursIn(query, Field(record, "extension", <<>>))
    \/ /\ mode = "size"
       /\ IsInt(query)
       /\ Field(record, "size", 0) >= IntOf(query)

\* C15: search_files(query, mode) returns exactly the entries of the mapping
\* that satisfy the mode's predicate, none when a size query is no numeral,
\* and leaves the mapping as it was
C15_SearchReturnsExactlyMatches ==
    [][\A s \in Sessions :
          Returns(s, "search_files") =>
            LET query == lastOp'[s].query
                mode == lastOp'[s].search_type
                ret == lastOp'[s].ret
            IN  /\ file_index'[s] = file_index[s]
                /\ \A r \in ret :
                      /\ r.path \in DOMAIN file_index[s]
                      /\ r.metadata = file_index[s][r.path]
                      /\ Satisfies(r.path, r.metadata, query, mode)
                /\ \A f \in DOMAIN file_index[s] :
                      Satisfies(f, file_index[s][f], query, mode)
                          => \E r \in ret : r.path = f
                /\ (mode = "size" /\ ~IsInt(query)) => ret = {}]_vars

\* C15 witness: a size search returned one of the two entries of the mapping
C15_Witness ==
    \E s \in Sessions :
        /\ lastOp[s].op = "search_files"
        /\ lastOp[s].search_type = "size"
        /\ Cardinality(DOMAIN file_index[s]) = 2
        /\ Cardinality(lastOp[s].ret) = 1
        /\ \E r \in lastOp[s].ret : r.metadata.size = IntOf(lastOp[s].query)

\* the sum of the values of a function over the keys given
RECURSIVE SumOver(_, _)
SumOver(f, keys) ==
    IF keys = {} THEN 0
    ELSE LET k == CHOOSE x \in keys : TRUE
         IN  f[k] + SumOver(f, keys \ {k})

\* the aggregate fits the mapping: the number of entries, the sum of their
\* sizes, an extension breakdown whose counts sum to the number of entries
StatsFit(ret, index) ==
    /\ {"total_files", "total_size_bytes", "extensions"} \subseteq DOMAIN ret
    /\ ret.total_files = Cardinality(DOMAIN index)
    /\ ret.total_size_bytes =
          SumOver([f \in DOMAIN index |-> Field(index[f], "size", 0)], DOMAIN index)
    /\ SumOver(ret.extensions, DOMAIN ret.extensions) = ret.total_files
    /\ \A f \in DOMAIN index :
          "extension" \in DOMAIN index[f] => index[f].extension \in DOMAIN ret.extensions

\* C16 as amended: get_file_stats of a mapping that has entries reports their
\* number, the sum of their sizes and an extension breakdown whose counts sum
\* to their number; of an empty mapping it returns the empty aggregate, which
\* has no field at all
C16_StatsFitOrEmpty ==
    [][\A s \in Sessions :
          Returns(s, "get_file_stats") =>
            IF DOMAIN file_index[s] = {}
            THEN DOMAIN lastOp'[s].ret = {}
            ELSE StatsFit(lastOp'[s].ret, file_index[s])]_vars

\* C16 as stated: the aggregate fits the mapping, the empty mapping included,
\* for which it has a file count and a total size of zero
C16_StatsFit ==
    [][\A s \in Sessions :
          Returns(s, "get_file_stats") => StatsFit(lastOp'[s].ret, file_index[s])]_vars

\* C16 witness: get_file_stats returned for a mapping of two files of
\* different extensions and three bytes in all
C16_Witness ==
    \E s \in Sessions :
        /\ lastOp[s].op = "get_file_stats"
        /\ Cardinality(DOMAIN file_index[s]) = 2
        /\ "total_files" \in DOMAIN lastOp[s].ret
        /\ lastOp[s].ret.total_files = 2
        /\ lastOp[s].ret.total_size_bytes = 3
        /\ Cardinality(DOMAIN lastOp[s].ret.extensions) = 2

\* C17: a call of handle_function_call with one of the nine tool names has
\* called the manager method of that name by the time it leaves, and what it
\* leaves with is a result, not the unsupported-function reply and not an
\* error raised in the body
C17_DispatchHandlesNineNames ==
    \A s \in {"s1"} :
        (dispatch.function_name \in FunctionNames
              /\ dispatch.at \in {"leaving", "exiting"}) =>
            /\ dispatch.reply \notin {"unsupported", "TypeError"}
            /\ lastOp[s].op = ManagerMethod(dispatch.function_name)

\* two mappings that differ in no key and no field but indexed_at
SameButIndexedAt(a, b) ==
    /\ DOMAIN a = DOMAIN b
    /\ \A p \in DOMAIN a :
          /\ DOMAIN a[p] = DOMAIN b[p]
          /\ \A f \in DOMAIN a[p] \ {"indexed_at"} : a[p][f] = b[p][f]

\* C18: a refresh_index that completes next after another that completed,
\* nothing done to the directory in between, yields the mapping of the first
\* but for indexed_at; the hash of every file is the same in both
C18_RefreshTwiceSame ==
    [][\A s \in Sessions :
          (/\ RefreshCompletes(s)
           /\ pc[s] = "ready"
           /\ lastOp[s].op = "refresh_index"
           /\ lastOp[s].ok)
              => SameButIndexedAt(file_index[s], file_index'[s])]_vars

\* the path, taken from the base directory, leads to a place under it
Contained(path) == ~IsAbs(Place(AbsolutePath(path)))

\* C19: every key of the mapping is a path under the base directory, and no
\* read_file or write_file of a path that leaves the base directory is sent
\* to the channel
C19_KeysStayUnderBase ==
    \A s \in Sessions :
        /\ \A k \in DOMAIN file_index[s] : Contained(k)
        /\ \A call \in pending[s] :
              call.op \in {"read_file", "write_file"} => Contained(call.path)

\* C21: when a session reaches Ready after another session on the same base
\* directory applied add_file_metadata(p, m), saved and closed, file p being
\* as it was and no I/O call of either session having failed, the entry of p
\* in its mapping carries the keys of m with their values in custom_metadata
C21_CustomMetadataSurvivesRestart ==
    [][\A s, t \in Sessions :
          (/\ s # t
           /\ pc[t] = "exited"
           /\ lastOp[t].saved
           /\ pc[s] = "startup_refresh"
           /\ pc'[s] = "ready"
           /\ spent'.faults = 0
           /\ frame[s].listing = RegularFiles)
              => \A p \in DOMAIN file_index[t] :
                    "custom_metadata" \in DOMAIN file_index[t][p] =>
                        /\ p \in DOMAIN file_index'[s]
                        /\ "custom_metadata" \in DOMAIN file_index'[s][p]
                        /\ \A k \in DOMAIN file_index[t][p].custom_metadata :
                              /\ k \in DOMAIN file_index'[s][p].custom_metadata
                              /\ file_index'[s][p].custom_metadata[k] =
                                     file_index[t][p].custom_metadata[k]]_vars

\* C22: of two sessions open on the same base directory, the one whose
\* closing save returns last, no I/O call having failed, leaves the index file a
\* complete document whose file_index is its mapping, nothing of the other
\* session's save in it
C22_LastWriterWins ==
    [][\A s, t \in Sessions :
          (/\ s # t
           /\ pc[t] \in {"exit_session", "exited"}
           /\ pc[s] = "exit_save"
           /\ pc'[s] = "exit_session"
           /\ spent'.faults = 0
           /\ lastOp'[s].saved)
              => Persisted(s)']_vars

====
